---- MODULE Spec2Model ----
(***************************************************************************)
(* Model of sigma/types.py: the SigmaString tokenizer (__init__), the      *)
(* operations over its token tuple (__add__, __radd__, startswith,         *)
(* endswith, __iter__), the serializer (convert) and                       *)
(* SigmaRegularExpression.escape.                                          *)
(*                                                                         *)
(* Python str values are sequences of one-character strings.  Python      *)
(* values carry their type: [type |-> "str", v |-> <<"a", "b">>],          *)
(* [type |-> "SpecialChars", v |-> "WILDCARD_MULTI"], None, bool, int.     *)
(* Objects live in `heap` (identity = index); `call` is the call that was  *)
(* made last and `ret` is how it ended (a returned value or a raised       *)
(* exception).                                                             *)
(***************************************************************************)
EXTENDS Integers, Sequences, FiniteSets, TLC

VARIABLES heap, call, ret

vars == <<heap, call, ret>>

(* ------------------------------ bounds -------------------------------- *)

\* longest raw string given to SigmaString(...) when the tokenizer is checked alone
TokMaxLen == 4
\* longest raw string given to SigmaString(...) in the other specifications
MaxLen == 3
\* number of SigmaString objects that may be alive
MaxObjs == 3
\* longest regular expression
ReMaxLen == 3
\* longest list of delimiters given to escape
MaxDelims == 2

(* --------------------------- Python values ---------------------------- *)

PyStr(s) == [type |-> "str", v |-> s]
PySpecial(k) == [type |-> "SpecialChars", v |-> k]
PyRef(i) == [type |-> "SigmaString", v |-> i]
PyRegexRef(i) == [type |-> "SigmaRegularExpression", v |-> i]
PyBool(b) == [type |-> "bool", v |-> b]
PyInt(n) == [type |-> "int", v |-> n]
PyNone == [type |-> "NoneType", v |-> "None"]
NotImplemented == [type |-> "NotImplementedType", v |-> "NotImplemented"]

Return(v) == [kind |-> "return", val |-> v]
Raise(e) == [kind |-> "raise", exc |-> e]

\* the characters raw strings are drawn from: an ordinary character, the two
\* wildcard designators and the escape character
Chars == {"a", "*", "?", "\\"}

StrsUpTo(n) == UNION {[1..k -> Chars] : k \in 0..n}

(* ------------------------- module constants --------------------------- *)

WILDCARD_MULTI == "WILDCARD_MULTI"
WILDCARD_SINGLE == "WILDCARD_SINGLE"
SpecialChars == {WILDCARD_MULTI, WILDCARD_SINGLE}

escape_char == "\\"

char_mapping == [c \in {"*", "?"} |-> IF c = "*" THEN WILDCARD_MULTI ELSE WILDCARD_SINGLE]

(* ----------------------- SigmaString.__init__ ------------------------- *)

\* TokStep with the escape character lost before an ordinary character
TokStep_EscapeLost(st, c) ==
    IF st.escaped
    THEN [st EXCEPT !.acc = @ \o <<c>>, !.escaped = FALSE]
    ELSE IF c = escape_char
    THEN [st EXCEPT !.escaped = TRUE]
    ELSE IF c \in DOMAIN char_mapping
    THEN [st EXCEPT !.r = (IF st.acc # <<>> THEN Append(@, PyStr(st.acc)) ELSE @)
                            \o <<PySpecial(char_mapping[c])>>,
                    !.acc = <<>>]
    ELSE [st EXCEPT !.acc = @ \o <<c>>]

\* one iteration of `for c in s`, on the loop state (r, acc, escaped)
TokStep(st, c) ==
    IF st.escaped
    THEN IF c \in DOMAIN char_mapping \/ c = escape_char
         THEN [st EXCEPT !.acc = @ \o <<c>>, !.escaped = FALSE]
         ELSE [st EXCEPT !.acc = @ \o <<escape_char, c>>, !.escaped = FALSE]
    ELSE IF c = escape_char
    THEN [st EXCEPT !.escaped = TRUE]
    ELSE IF c \in DOMAIN char_mapping
    THEN [st EXCEPT !.r = (IF st.acc # <<>> THEN Append(@, PyStr(st.acc)) ELSE @)
                            \o <<PySpecial(char_mapping[c])>>,
                    !.acc = <<>>]
    ELSE [st EXCEPT !.acc = @ \o <<c>>]

RECURSIVE TokLoop(_, _, _)
TokLoop(s, i, st) ==
    IF i > Len(s) THEN st ELSE TokLoop(s, i + 1, TokStep(st, s[i]))

\* what is done after the loop: the pending escape and the remainder
TokFinish(st) ==
    LET acc1 == IF st.escaped THEN st.acc \o <<escape_char>> ELSE st.acc
    IN  IF acc1 # <<>> THEN Append(st.r, PyStr(acc1)) ELSE st.r

\* the object SigmaString(s) constructs; s is a str value or None
SigmaString_init(s) ==
    LET s0 == IF s.type = "NoneType" THEN <<>> ELSE s.v
        st == TokLoop(s0, 1, [r |-> <<>>, acc |-> <<>>, escaped |-> FALSE])
    IN  [s |-> TokFinish(st), protected |-> TRUE]

(* ------------------ SigmaString.__add__ / __radd__ -------------------- *)

\* `other` is a Python value; a SigmaString operand is a reference into h.
\* The result is NotImplemented or the new object.
SigmaString_add(h, self, other) ==
    LET s == SigmaString_init(PyNone)
    IN  IF other.type = "SigmaString"
        THEN [s EXCEPT !.s = h[self].s \o h[other.v].s]
        ELSE IF other.type \in {"str", "SpecialChars"}
        THEN [s EXCEPT !.s = h[self].s \o <<other>>]
        ELSE NotImplemented

SigmaString_radd(h, self, other) ==
    IF other.type \in {"str", "SpecialChars"}
    THEN LET s == SigmaString_init(PyNone)
         IN  [s EXCEPT !.s = <<other>> \o h[self].s]
    ELSE NotImplemented

(* --------------- SigmaString.startswith / endswith -------------------- *)

IsPrefix(p, t) == Len(p) <= Len(t) /\ SubSeq(t, 1, Len(p)) = p
IsSuffix(p, t) == Len(p) <= Len(t) /\ SubSeq(t, Len(t) - Len(p) + 1, Len(t)) = p

\* isinstance(val, type(c)) for the value types that occur
IsInstance(val, c) == val.type = c.type

SigmaString_startswith(h, self, val) ==
    IF Len(h[self].s) = 0
    THEN Raise("IndexError")                  \* self.s[0] of an empty tuple
    ELSE LET c == h[self].s[1]
         IN  IF ~IsInstance(val, c) THEN Return(PyBool(FALSE))
             ELSE IF c.type = "str" THEN Return(PyBool(IsPrefix(val.v, c.v)))
             ELSE Return(PyBool(c = val))

\* endswith that takes self.s[0] for the boundary token
SigmaString_endswith_FirstToken(h, self, val) ==
    IF Len(h[self].s) = 0
    THEN Raise("IndexError")
    ELSE LET c == h[self].s[1]
         IN  IF ~IsInstance(val, c) THEN Return(PyBool(FALSE))
             ELSE IF c.type = "str" THEN Return(PyBool(IsSuffix(val.v, c.v)))
             ELSE Return(PyBool(c = val))

SigmaString_endswith(h, self, val) ==
    IF Len(h[self].s) = 0
    THEN Raise("IndexError")                  \* self.s[-1] of an empty tuple
    ELSE LET c == h[self].s[Len(h[self].s)]
         IN  IF ~IsInstance(val, c) THEN Return(PyBool(FALSE))
             ELSE IF c.type = "str" THEN Return(PyBool(IsSuffix(val.v, c.v)))
             ELSE Return(PyBool(c = val))

(* ------------------------ SigmaString.__iter__ ------------------------ *)

RECURSIVE CharsOf(_, _)
CharsOf(str, k) ==
    IF k > Len(str) THEN <<>> ELSE <<PyStr(<<str[k]>>)>> \o CharsOf(str, k + 1)

\* the items the generator yields: the single characters of the string
\* parts, and the special characters themselves
RECURSIVE IterFrom(_, _)
IterFrom(tokens, k) ==
    IF k > Len(tokens) THEN <<>>
    ELSE (IF tokens[k].type = "str" THEN CharsOf(tokens[k].v, 1) ELSE <<tokens[k]>>)
         \o IterFrom(tokens, k + 1)

SigmaString_iter(h, self) == IterFrom(h[self].s, 1)

(* ------------------------ SigmaString.convert ------------------------- *)

\* x or "" for an Optional[str]
OrEmpty(x) == IF x.type = "NoneType" THEN <<>> ELSE x.v

CharSet(str) == {str[k] : k \in DOMAIN str}

\* s += x, which raises TypeError when x is not a str
StrAppend(s, x) == IF x.type = "str" THEN Return(PyStr(s \o x.v)) ELSE Raise("TypeError")

\* the body of `for c in self`, on the output s built so far
ConvertStep(s, c, cfg, escaped_chars) ==
    IF c.type = "str"
    THEN IF c.v[1] \in CharSet(cfg.filter_chars)
         THEN Return(PyStr(s))
         ELSE IF c.v[1] \in escaped_chars
              THEN LET e == StrAppend(s, cfg.escape_char)
                   IN  IF e.kind = "raise" THEN e ELSE Return(PyStr(e.val.v \o c.v))
              ELSE Return(PyStr(s \o c.v))
    ELSE IF c = PySpecial(WILDCARD_MULTI)
         THEN IF cfg.wildcard_multi.type # "NoneType"
              THEN Return(PyStr(s \o cfg.wildcard_multi.v))
              ELSE Raise("SigmaValueError")
         ELSE IF c = PySpecial(WILDCARD_SINGLE)
         THEN IF cfg.wildcard_single.type # "NoneType"
              THEN Return(PyStr(s \o cfg.wildcard_single.v))
              ELSE Raise("SigmaValueError")
         ELSE Return(PyStr(s))

RECURSIVE ConvertLoop(_, _, _, _, _)
ConvertLoop(items, k, s, cfg, escaped_chars) ==
    IF k > Len(items) THEN Return(PyStr(s))
    ELSE LET step == ConvertStep(s, items[k], cfg, escaped_chars)
         IN  IF step.kind = "raise" THEN step
             ELSE ConvertLoop(items, k + 1, step.val.v, cfg, escaped_chars)

SigmaString_convert(h, self, cfg) ==
    LET escaped_chars == CharSet(OrEmpty(cfg.wildcard_multi) \o OrEmpty(cfg.wildcard_single)
                                 \o cfg.add_escaped)
    IN  ConvertLoop(SigmaString_iter(h, self), 1, <<>>, cfg, escaped_chars)

\* the defaults of convert's parameters
DefaultConfig ==
    [escape_char |-> PyStr(<<"\\">>), wildcard_multi |-> PyStr(<<"*">>),
     wildcard_single |-> PyStr(<<"?">>), add_escaped |-> <<>>, filter_chars |-> <<>>]

(* ------------------- SigmaRegularExpression ---------------------------- *)

\* the characters regular expressions are drawn from
ReChars == {"a", "b", "\\"}

ReStrsUpTo(n) == UNION {[1..k -> ReChars] : k \in 0..n}

\* re.compile(regexp) over ReChars: a backslash takes the character after it
\* (\a, \b and \\ are escapes of the grammar); a pattern ending in a lone
\* backslash does not compile
RECURSIVE ReCompiles(_, _)
ReCompiles(regexp, k) ==
    IF k > Len(regexp) THEN TRUE
    ELSE IF regexp[k] = "\\"
         THEN k + 1 <= Len(regexp) /\ ReCompiles(regexp, k + 2)
         ELSE ReCompiles(regexp, k + 1)

\* the dataclass constructor with __post_init__: the object or the error
SigmaRegularExpression_init(regexp) ==
    IF ReCompiles(regexp, 1)
    THEN Return([regexp |-> regexp])
    ELSE Raise("SigmaRegularExpressionError")

\* whether the literal lit (one re.escape'd alternative) matches str at 0-based offset p
LitMatches(lit, str, p) ==
    p + Len(lit) <= Len(str) /\ SubSeq(str, p + 1, p + Len(lit)) = lit

\* the alternation "|".join(...) tried at offset p: the length of the first
\* alternative, in order, that matches there (when nonempty is set, an empty
\* match is refused and the next alternative is tried); -1 when none does
RECURSIVE AltMatchLen(_, _, _, _, _)
AltMatchLen(alts, k, str, p, nonempty) ==
    IF k > Len(alts) THEN -1
    ELSE IF LitMatches(alts[k], str, p) /\ ~(nonempty /\ Len(alts[k]) = 0)
         THEN Len(alts[k])
         ELSE AltMatchLen(alts, k + 1, str, p, nonempty)

\* finditer that resumes one character after the start of a match
RECURSIVE FindIterStarts_Overlapping(_, _, _, _)
FindIterStarts_Overlapping(alts, str, p, must_advance) ==
    IF p > Len(str) THEN <<>>
    ELSE LET n == AltMatchLen(alts, 1, str, p, must_advance)
         IN  IF n < 0 THEN FindIterStarts_Overlapping(alts, str, p + 1, FALSE)
             ELSE <<PyInt(p)>> \o FindIterStarts_Overlapping(alts, str, p + 1, FALSE)

\* re.finditer(r, str): the start offsets of the matches.  The scan resumes
\* at the end of the previous match; right after an empty match the match at
\* that very offset must be non-empty.
RECURSIVE FindIterStarts(_, _, _, _)
FindIterStarts(alts, str, p, must_advance) ==
    IF p > Len(str) THEN <<>>
    ELSE LET n == AltMatchLen(alts, 1, str, p, must_advance)
         IN  IF n < 0 THEN FindIterStarts(alts, str, p + 1, FALSE)
             ELSE <<PyInt(p)>> \o FindIterStarts(alts, str, p + n, n = 0)

\* str[i:j], i and j an int or None
Slice(str, i, j) ==
    LET lo == IF i.type = "NoneType" THEN 0 ELSE i.v
        hi == IF j.type = "NoneType" THEN Len(str) ELSE j.v
    IN  SubSeq(str, lo + 1, hi)

\* sep.join(parts)
RECURSIVE Join(_, _, _)
Join(sep, parts, k) ==
    IF k > Len(parts) THEN <<>>
    ELSE IF k = Len(parts) THEN parts[k]
    ELSE parts[k] \o sep \o Join(sep, parts, k + 1)

\* zip(xs, ys) of two lists of the same length
Zip(xs, ys) == [k \in 1..Len(xs) |-> <<xs[k], ys[k]>>]

SigmaRegularExpression_escape(h, self, escaped, esc) ==
    LET r      == escaped \o <<esc>>
        pos    == FindIterStarts(r, h[self].regexp, 0, FALSE)
        ranges == Zip(<<PyNone>> \o pos, pos \o <<PyNone>>)
        chunks == [k \in 1..Len(ranges) |-> Slice(h[self].regexp, ranges[k][1], ranges[k][2])]
    IN  Return(PyStr(Join(esc, chunks, 1)))

(* ============================== actions ================================ *)

NoCall == [op |-> "none"]

Init ==
    /\ heap = <<>>
    /\ call = NoCall
    /\ ret = Return(PyNone)

IsNotImplemented(r) == "type" \in DOMAIN r

\* x = SigmaString(raw)
Construct(raw) ==
    /\ heap' = Append(heap, SigmaString_init(raw))
    /\ call' = [op |-> "SigmaString", arg |-> raw]
    /\ ret' = Return(PyRef(Len(heap) + 1))

\* + that extends the left operand in place and returns it
Add_InPlace(self, other) ==
    LET r == SigmaString_add(heap, self, other)
    IN  /\ call' = [op |-> "add", self |-> self, other |-> other]
        /\ IF IsNotImplemented(r)
           THEN heap' = heap /\ ret' = Raise("TypeError")
           ELSE heap' = [heap EXCEPT ![self] = r] /\ ret' = Return(PyRef(self))

\* x = heap[self] + other: __add__; NotImplemented makes the operator raise
\* TypeError, as no operand modelled here has a reflected method to fall back on
Add(self, other) ==
    LET r == SigmaString_add(heap, self, other)
    IN  /\ call' = [op |-> "add", self |-> self, other |-> other]
        /\ IF IsNotImplemented(r)
           THEN heap' = heap /\ ret' = Raise("TypeError")
           ELSE heap' = Append(heap, r) /\ ret' = Return(PyRef(Len(heap) + 1))

\* x = other + heap[self], other not a SigmaString: __radd__
Radd(self, other) ==
    LET r == SigmaString_radd(heap, self, other)
    IN  /\ call' = [op |-> "radd", self |-> self, other |-> other]
        /\ IF IsNotImplemented(r)
           THEN heap' = heap /\ ret' = Raise("TypeError")
           ELSE heap' = Append(heap, r) /\ ret' = Return(PyRef(Len(heap) + 1))

Startswith(self, val) ==
    /\ call' = [op |-> "startswith", self |-> self, val |-> val]
    /\ ret' = SigmaString_startswith(heap, self, val)
    /\ UNCHANGED heap

Endswith(self, val) ==
    /\ call' = [op |-> "endswith", self |-> self, val |-> val]
    /\ ret' = SigmaString_endswith(heap, self, val)
    /\ UNCHANGED heap

Convert(self, cfg) ==
    /\ call' = [op |-> "convert", self |-> self, cfg |-> cfg]
    /\ ret' = SigmaString_convert(heap, self, cfg)
    /\ UNCHANGED heap

\* y = SigmaString(x.convert(...)): the string convert returned is parsed again
Reparse ==
    /\ call.op = "convert"
    /\ ret.kind = "return"
    /\ heap' = Append(heap, SigmaString_init(ret.val))
    /\ call' = [op |-> "reparse", self |-> call.self, cfg |-> call.cfg, arg |-> ret.val]
    /\ ret' = Return(PyRef(Len(heap) + 1))

\* x = SigmaRegularExpression(regexp)
ConstructRegex(regexp) ==
    LET r == SigmaRegularExpression_init(regexp)
    IN  /\ call' = [op |-> "SigmaRegularExpression", arg |-> regexp]
        /\ IF r.kind = "raise"
           THEN heap' = heap /\ ret' = r
           ELSE heap' = Append(heap, r.val) /\ ret' = Return(PyRegexRef(Len(heap) + 1))

Escape(self, escaped, esc) ==
    /\ call' = [op |-> "escape", self |-> self, escaped |-> escaped, escape_char |-> esc]
    /\ ret' = SigmaRegularExpression_escape(heap, self, escaped, esc)
    /\ UNCHANGED heap

(* --------------------------- input domains ---------------------------- *)

RawInputs(n) == {PyNone} \cup {PyStr(s) : s \in StrsUpTo(n)}

SpecialValues == {PySpecial(k) : k \in SpecialChars}

\* the right (left) operands of +: text, special characters, and an int
BareOperands ==
    {PyStr(s) : s \in {<<>>, <<"a">>, <<"*">>}} \cup SpecialValues \cup {PyInt(0)}

QueryValues(n) == {PyStr(s) : s \in StrsUpTo(n)} \cup SpecialValues

OptStr(S) == {PyNone} \cup {PyStr(s) : s \in S}

Configs ==
    [escape_char     : OptStr({<<"\\">>, <<"!">>}),
     wildcard_multi  : OptStr({<<>>, <<"*">>, <<"a", "*">>}),
     wildcard_single : OptStr({<<>>, <<"?">>}),
     add_escaped     : {<<>>, <<"a">>, <<"\\">>},
     filter_chars    : {<<>>, <<"a">>, <<"*">>}]

\* the delimiter strings and the lists of them given to escape
Delims == UNION {[1..k -> {"a", "b"}] : k \in 0..2}

DelimLists(n) == UNION {[1..k -> Delims] : k \in 0..n}

EscapeChars == {<<"\\">>, <<"a">>}

(* --------------------------- specifications --------------------------- *)

\* the tokenizer alone
NextTokenize ==
    \E raw \in RawInputs(TokMaxLen) : Len(heap) = 0 /\ Construct(raw)

SpecTokenize == Init /\ [][NextTokenize]_vars

\* construction and concatenation
NextConcat ==
    \/ \E raw \in RawInputs(1) : Len(heap) < MaxObjs /\ Construct(raw)
    \/ \E i \in DOMAIN heap, j \in DOMAIN heap : Len(heap) < MaxObjs /\ Add(i, PyRef(j))
    \/ \E i \in DOMAIN heap, o \in BareOperands : Len(heap) < MaxObjs /\ Add(i, o)
    \/ \E i \in DOMAIN heap, o \in BareOperands : Len(heap) < MaxObjs /\ Radd(i, o)

SpecConcat == Init /\ [][NextConcat]_vars

\* construction and the prefix / suffix tests.  The tests leave the heap as
\* it is, so a test after another test reaches no state that a test right
\* after the construction does not: each is taken from there.
NextQuery ==
    \/ \E raw \in RawInputs(MaxLen) : Len(heap) = 0 /\ Construct(raw)
    \/ \E val \in QueryValues(MaxLen) : call.op = "SigmaString" /\ Startswith(1, val)
    \/ \E val \in QueryValues(MaxLen) : call.op = "SigmaString" /\ Endswith(1, val)

SpecQuery == Init /\ [][NextQuery]_vars

\* construction, conversion, and parsing of the converted string
NextConvert ==
    \/ \E raw \in RawInputs(MaxLen) : Len(heap) = 0 /\ Construct(raw)
    \/ \E cfg \in Configs : call.op = "SigmaString" /\ Convert(1, cfg)
    \/ Len(heap) = 1 /\ Reparse

SpecConvert == Init /\ [][NextConvert]_vars

\* regular expressions
NextRegex ==
    \/ \E re \in ReStrsUpTo(ReMaxLen) : Len(heap) = 0 /\ ConstructRegex(re)
    \/ \E escaped \in DelimLists(MaxDelims), esc \in EscapeChars :
          call.op = "SigmaRegularExpression" /\ Len(heap) = 1 /\ Escape(1, escaped, esc)

SpecRegex == Init /\ [][NextRegex]_vars

(* =============================== claims ================================ *)

TokensOf(i) == heap[i].s

IsEmptyLiteral(tok) == tok.type = "str" /\ Len(tok.v) = 0

(* ------------------------------- C1 ----------------------------------- *)

\* the number of escape characters in a row right before position i
RECURSIVE RefEscapesBefore(_, _)
RefEscapesBefore(s, i) ==
    IF i > 1 /\ s[i - 1] = "\\" THEN 1 + RefEscapesBefore(s, i - 1) ELSE 0

\* position i follows a pending escape: the escape characters before it pair
\* up from the left, and one is left over
RefIsEscaped(s, i) == RefEscapesBefore(s, i) % 2 = 1

\* what position i contributes: characters of the literal run, or a wildcard
RefEmit(s, i) ==
    IF RefIsEscaped(s, i)
    THEN IF s[i] \in {"*", "?", "\\"} THEN <<s[i]>> ELSE <<"\\", s[i]>>
    ELSE IF s[i] = "\\" THEN (IF i = Len(s) THEN <<"\\">> ELSE <<>>)
    ELSE IF s[i] = "*" THEN <<WILDCARD_MULTI>>
    ELSE IF s[i] = "?" THEN <<WILDCARD_SINGLE>>
    ELSE <<s[i]>>

RECURSIVE RefUnits(_, _)
RefUnits(s, i) == IF i > Len(s) THEN <<>> ELSE RefEmit(s, i) \o RefUnits(s, i + 1)

\* the literal characters between two wildcards form one run
RECURSIVE RefRuns(_, _)
RefRuns(units, k) ==
    IF k > Len(units) THEN <<>>
    ELSE LET rest == RefRuns(units, k + 1)
         IN  IF units[k] \in SpecialChars THEN <<PySpecial(units[k])>> \o rest
             ELSE IF rest # <<>> /\ rest[1].type = "str"
                  THEN <<PyStr(<<units[k]>> \o rest[1].v)>> \o Tail(rest)
                  ELSE <<PyStr(<<units[k]>>)>> \o rest

RefTokens(raw) == RefRuns(RefUnits(IF raw.type = "NoneType" THEN <<>> ELSE raw.v, 1), 1)

\* C1: SigmaString(raw) never fails, and its token tuple is the one the
\* reference left-to-right scan of raw yields: an escape before a designator
\* or an escape gives that one character, an escape before anything else
\* gives the escape and the character, an unescaped designator ends the
\* pending non-empty run and gives its wildcard, an escape pending at the
\* end gives one escape character, and the last non-empty run is flushed.
C1_TokenizeIsReferenceScan ==
    call.op = "SigmaString" =>
        /\ ret = Return(PyRef(Len(heap)))
        /\ TokensOf(Len(heap)) = RefTokens(call.arg)

C1_Witness ==
    /\ call.op = "SigmaString"
    /\ call.arg = PyStr(<<"\\", "*", "\\", "a">>)
    /\ TokensOf(1) = <<PyStr(<<"*", "\\", "a">>)>>

(* ------------------------------- C2 ----------------------------------- *)

\* C2: in every value built by SigmaString(...) and by + (with another
\* value, with bare text or with a special character, on either side), no
\* literal-run token is the empty string.
C2_NoEmptyLiteralRun ==
    \A i \in DOMAIN heap : \A k \in DOMAIN TokensOf(i) : ~IsEmptyLiteral(TokensOf(i)[k])

(* ------------------------------- C8 ----------------------------------- *)

C8_Concatenated(h, c) ==
    IF c.op = "radd" THEN <<c.other>> \o h[c.self].s
    ELSE IF c.other.type = "SigmaString" THEN h[c.self].s \o h[c.other.v].s
    ELSE h[c.self].s \o <<c.other>>

C8_Step ==
    (call'.op \in {"add", "radd"} /\ call'.other.type \in {"SigmaString", "str", "SpecialChars"}) =>
        /\ Len(heap') = Len(heap) + 1
        /\ ret' = Return(PyRef(Len(heap')))
        /\ heap'[Len(heap')].s = C8_Concatenated(heap, call')
        /\ \A i \in DOMAIN heap : heap'[i] = heap[i]

\* C8: a + b (and the reflected b + a) returns a new value whose tokens are
\* a's followed by b's (b itself as one token when it is bare text or a
\* special character), and every value that existed before the call, the
\* operands included, has the tokens it had.
C8_ConcatIsNewValueAndFrame == [][C8_Step]_vars

C8_Witness ==
    /\ call.op = "add"
    /\ call.other.type = "SigmaString"
    /\ call.self = 2 /\ call.other.v = 1
    /\ Len(heap) = 3
    /\ TokensOf(1) = <<PySpecial(WILDCARD_MULTI)>>
    /\ TokensOf(2) = <<PyStr(<<"a">>)>>
    /\ TokensOf(3) = <<PyStr(<<"a">>), PySpecial(WILDCARD_MULTI)>>

(* ---------------------------- C7 and C9 ------------------------------- *)

IsQuery == call.op \in {"startswith", "endswith"}

C7_Boundary == IF call.op = "startswith" THEN TokensOf(call.self)[1]
               ELSE TokensOf(call.self)[Len(TokensOf(call.self))]

C7_Expected(tok, val, op) ==
    IF tok.type # val.type THEN FALSE
    ELSE IF tok.type = "str"
         THEN IF op = "startswith"
              THEN \E k \in 0..Len(tok.v) : SubSeq(tok.v, 1, k) = val.v
              ELSE \E k \in 0..Len(tok.v) : SubSeq(tok.v, k + 1, Len(tok.v)) = val.v
         ELSE tok.v = val.v

\* C7: startswith (endswith) of a value with at least one token is decided
\* by its first (last) token and the query alone: false when one is text and
\* the other a special character; for two texts, whether the query is a
\* prefix (suffix) of that one token; for two special characters, whether
\* they are the same.
C7_BoundaryTokenDecides ==
    (IsQuery /\ Len(TokensOf(call.self)) > 0) =>
        ret = Return(PyBool(C7_Expected(C7_Boundary, call.val, call.op)))

C7_Witness ==
    /\ call.op = "endswith"
    /\ TokensOf(1) = <<PyStr(<<"a">>), PySpecial(WILDCARD_MULTI), PyStr(<<"\\">>)>>
    /\ call.val = PyStr(<<"a">>)
    /\ ret = Return(PyBool(FALSE))

\* C9: on every value SigmaString(raw) gives, the one from the empty string
\* included, startswith and endswith return a bool and do not raise.
C9_QueriesReturnBool ==
    IsQuery => ret.kind = "return" /\ ret.val.type = "bool"

(* ------------------------ C3, C5, C6 and C10 -------------------------- *)

\* the literal characters of a token tuple, in order
RECURSIVE LiteralChars(_, _)
LiteralChars(tokens, k) ==
    IF k > Len(tokens) THEN <<>>
    ELSE (IF tokens[k].type = "str" THEN tokens[k].v ELSE <<>>) \o LiteralChars(tokens, k + 1)

HasSpecial(tokens, kind) == \E k \in DOMAIN tokens : tokens[k] = PySpecial(kind)

\* a wildcard kind that occurs in the value has no representation
SomeWildcardUnset(tokens, cfg) ==
    \/ HasSpecial(tokens, WILDCARD_MULTI) /\ cfg.wildcard_multi.type = "NoneType"
    \/ HasSpecial(tokens, WILDCARD_SINGLE) /\ cfg.wildcard_single.type = "NoneType"

EscapedSet(cfg) ==
    CharSet(OrEmpty(cfg.wildcard_multi)) \cup CharSet(OrEmpty(cfg.wildcard_single))
        \cup CharSet(cfg.add_escaped)

\* what one token contributes to the output, as the claim has it (an unset
\* escape character prefixes nothing)
RECURSIVE C5_EmitChars(_, _, _)
C5_EmitChars(str, k, cfg) ==
    IF k > Len(str) THEN <<>>
    ELSE (IF str[k] \in CharSet(cfg.filter_chars) THEN <<>>
          ELSE IF str[k] \in EscapedSet(cfg) THEN OrEmpty(cfg.escape_char) \o <<str[k]>>
          ELSE <<str[k]>>)
         \o C5_EmitChars(str, k + 1, cfg)

RECURSIVE C5_Emit(_, _, _)
C5_Emit(tokens, k, cfg) ==
    IF k > Len(tokens) THEN <<>>
    ELSE (IF tokens[k].type = "str" THEN C5_EmitChars(tokens[k].v, 1, cfg)
          ELSE IF tokens[k].v = WILDCARD_MULTI THEN OrEmpty(cfg.wildcard_multi)
          ELSE OrEmpty(cfg.wildcard_single))
         \o C5_Emit(tokens, k + 1, cfg)

\* C5: for every value and every configuration (that has a representation
\* for the wildcards of the value), convert returns the in-order
\* concatenation of: nothing for a literal character in filter_chars; the
\* escape character and the character for one in the set of characters of
\* wildcard_multi, wildcard_single and add_escaped; the character itself
\* for any other; the configured representation for a wildcard.
C5_ConvertEmitsPerCharacter ==
    (call.op = "convert" /\ ~SomeWildcardUnset(TokensOf(call.self), call.cfg)) =>
        ret = Return(PyStr(C5_Emit(TokensOf(call.self), 1, call.cfg)))

\* C6: convert of a value with a wildcard whose representation is unset
\* raises SigmaValueError (and so returns no string); with a representation
\* set (the empty string included) for every wildcard kind of the value it
\* does not raise SigmaValueError.
C6_UnsetWildcardRaisesValueError ==
    call.op = "convert" =>
        IF SomeWildcardUnset(TokensOf(call.self), call.cfg)
        THEN ret = Raise("SigmaValueError")
        ELSE ret # Raise("SigmaValueError")

\* C10: convert raises nothing but SigmaValueError, and that only for a
\* wildcard without representation; in every other case it returns a str,
\* also with escape_char None and a literal character of the escaped set.
C10_ConvertFailsOnlyOnUnsetWildcard ==
    call.op = "convert" =>
        /\ ret.kind = "raise" =>
              ret.exc = "SigmaValueError" /\ SomeWildcardUnset(TokensOf(call.self), call.cfg)
        /\ ~SomeWildcardUnset(TokensOf(call.self), call.cfg) =>
              ret.kind = "return" /\ ret.val.type = "str"

\* no literal character of the value is escaped or filtered by cfg
C3_NothingToEscape(tokens, cfg) ==
    \A c \in CharSet(LiteralChars(tokens, 1)) :
        c \notin EscapedSet(cfg) /\ c \notin CharSet(cfg.filter_chars)

\* C3: under the default configuration, a value SigmaString(raw) gave that
\* has no literal "*" or "?" (the characters convert escapes) is got back
\* by parsing what convert returns: SigmaString(w.convert()).s = w.s.
C3_RoundTripDefaultConfig ==
    (call.op = "reparse" /\ call.cfg = DefaultConfig
        /\ C3_NothingToEscape(TokensOf(call.self), call.cfg)) =>
        TokensOf(Len(heap)) = TokensOf(call.self)

(* ------------------------------- C4 ----------------------------------- *)

C4_Pattern == heap[call.self].regexp

\* the strings that are to be escaped: the delimiters and the escape character
C4_Targets == {call.escaped[k] : k \in DOMAIN call.escaped} \cup {call.escape_char}

\* target d occurs in the pattern at position p (1-based)
C4_OccursAt(d, p) ==
    p + Len(d) - 1 <= Len(C4_Pattern) /\ \A k \in 1..Len(d) : C4_Pattern[p + k - 1] = d[k]

\* the positions at which some target occurs (an empty delimiter occurs
\* everywhere, also at the end)
C4_Occurrences == {p \in 1..(Len(C4_Pattern) + 1) : \E d \in C4_Targets : C4_OccursAt(d, p)}

\* the pattern with one escape character before each position of P
RECURSIVE C4_InsertBefore(_, _)
C4_InsertBefore(P, p) ==
    IF p > Len(C4_Pattern) THEN (IF p \in P THEN call.escape_char ELSE <<>>)
    ELSE (IF p \in P THEN call.escape_char ELSE <<>>) \o <<C4_Pattern[p]>>
         \o C4_InsertBefore(P, p + 1)

C4_NonEmptyDelimiters == \A k \in DOMAIN call.escaped : call.escaped[k] # <<>>

C4_MatchLen(p) ==
    LET alts == call.escaped \o <<call.escape_char>>
        k == CHOOSE k \in DOMAIN alts :
                 C4_OccursAt(alts[k], p) /\ \A j \in 1..(k - 1) : ~C4_OccursAt(alts[j], p)
    IN  Len(alts[k])

\* the starts of the matches of the left-to-right scan: an occurrence counts
\* unless it begins inside an earlier match
C4_MatchStarts ==
    CHOOSE M \in SUBSET C4_Occurrences :
        \A p \in C4_Occurrences :
            p \in M <=> \A q \in M : q < p => q + C4_MatchLen(q) <= p

====
